---------------------------- MODULE Spec2Model ----------------------------
(***************************************************************************)
(* NYT Spelling Bee solver (solver.py): the candidate filtering pipeline   *)
(* solve_spellingbee, its helper predicates, the memoised frequency lookup *)
(* and the presentation functions.                                         *)
(*                                                                         *)
(* A str is a sequence of one-character strings.  A Zipf score is kept in  *)
(* hundredths (3.6 is 360), the precision wordfreq reports.                *)
(***************************************************************************)
EXTENDS Integers, Sequences, FiniteSets, TLC

(***************************************************************************)
(* Characters, in code-point order: str comparison, str.lower, [a-z].      *)
(***************************************************************************)
Chars ==
    << " ", "-",
       "A", "B", "C", "D", "E", "F", "G", "H", "I", "J", "K", "L", "M",
       "N", "O", "P", "Q", "R", "S", "T", "U", "V", "W", "X", "Y", "Z",
       "a", "b", "c", "d", "e", "f", "g", "h", "i", "j", "k", "l", "m",
       "n", "o", "p", "q", "r", "s", "t", "u", "v", "w", "x", "y", "z" >>

AllChars == {Chars[k] : k \in 1..Len(Chars)}

\* ord(c), as the position in Chars
OrdOf == [c \in AllChars |-> CHOOSE k \in 1..Len(Chars) : Chars[k] = c]

Ord(c) == OrdOf[c]

UpperChars == {Chars[k] : k \in 3..28}

LowerChars == {Chars[k] : k \in 29..54}

IsUpper(c) == c \in UpperChars

IsLowerAlpha(c) == c \in LowerChars

\* c.lower() of one character
LowerChar(c) == IF IsUpper(c) THEN Chars[Ord(c) + 26] ELSE c

\* s.lower()
Lower(s) == [k \in 1..Len(s) |-> LowerChar(s[k])]

\* set(s)
CharSet(s) == {s[k] : k \in 1..Len(s)}

\* s.lstrip(), s.rstrip(), s.strip(): whitespace removed at the ends
RECURSIVE LStrip(_)
LStrip(s) == IF s # << >> /\ Head(s) = " " THEN LStrip(Tail(s)) ELSE s

RECURSIVE RStrip(_)
RStrip(s) ==
    IF s # << >> /\ s[Len(s)] = " " THEN RStrip(SubSeq(s, 1, Len(s) - 1)) ELSE s

Strip(s) == RStrip(LStrip(s))

\* s.endswith(suffix)
EndsWith(s, suffix) ==
    /\ Len(suffix) <= Len(s)
    /\ SubSeq(s, Len(s) - Len(suffix) + 1, Len(s)) = suffix

\* s.count(c)
Count(s, c) == Cardinality({k \in 1..Len(s) : s[k] = c})

\* c in s for str: c is a substring of s
Contains(s, c) ==
    \E k \in 0..(Len(s) - Len(c)) : SubSeq(s, k + 1, k + Len(c)) = c

\* s < t for str: lexicographic by code point, a proper prefix is smaller
StrLess(s, t) ==
    \E k \in 1..(Len(t)) :
        /\ k <= Len(s) + 1
        /\ \A j \in 1..(k - 1) : s[j] = t[j]
        /\ \/ k = Len(s) + 1
           \/ k <= Len(s) /\ Ord(s[k]) < Ord(t[k])

\* _WORD_RE = ^[a-z]+$
WordReMatch(w) == Len(w) >= 1 /\ \A k \in 1..Len(w) : IsLowerAlpha(w[k])

RECURSIVE LoadFrom(_, _)
LoadFrom(lines, k) ==
    IF k > Len(lines) THEN << >>
    ELSE LET w == Lower(Strip(lines[k]))
         IN  IF WordReMatch(w) THEN << w >> \o LoadFrom(lines, k + 1)
             ELSE LoadFrom(lines, k + 1)

\* the entries the generator yields, in file order
_load_words(lines) == LoadFrom(lines, 1)

(***************************************************************************)
(* Heuristics                                                              *)
(***************************************************************************)
NonPluralEndings ==
    << <<"o","u","s">>, <<"n","e","s","s">>, <<"l","e","s","s">>,
       <<"i","o","u","s">>, <<"u","s">> >>

\* _is_likely_plural with the length guard off by one (len(word) < 4)
PluralLengthOffByOne(word) ==
    IF ~EndsWith(word, <<"s">>) \/ Len(word) < 4 THEN FALSE
    ELSE IF EndsWith(word, <<"s","s">>) THEN FALSE
    ELSE ~\E e \in 1..Len(NonPluralEndings) : EndsWith(word, NonPluralEndings[e])

_is_likely_plural(word) ==
    IF ~EndsWith(word, <<"s">>) \/ Len(word) <= 4 THEN FALSE
    ELSE IF EndsWith(word, <<"s","s">>) THEN FALSE
    ELSE ~\E e \in 1..Len(NonPluralEndings) : EndsWith(word, NonPluralEndings[e])

RareLetters == {"q", "x", "z"}

\* EXCLUDE_PATTERNS, matched with re.match: ^.{15,}$ and .*[qxz]{2,}.*
MatchesExcludePattern(word) ==
    \/ Len(word) >= 15
    \/ \E k \in 1..(Len(word) - 1) : word[k] \in RareLetters /\ word[k + 1] \in RareLetters

\* word.count(char) >= len(word) * 0.6, in tenths
_is_obscure_word(word) ==
    \/ MatchesExcludePattern(word)
    \/ /\ Len(word) >= 6
       /\ \E c \in CharSet(word) : 10 * Count(word, c) >= 6 * Len(word)

(***************************************************************************)
(* Optional[...] arguments: << >> is None, << x >> is the value x.         *)
(***************************************************************************)
IsNone(opt) == opt = << >>

Val(opt) == opt[1]

(***************************************************************************)
(* _is_valid_word, by the line of the return statement it leaves through.  *)
(***************************************************************************)
\* _is_valid_word without the center check
ValidWordExitNoCenter(word, letters_set, center, min_len, filter_plurals, filter_obscure) ==
    IF Len(word) < min_len THEN 108
    ELSE IF ~(CharSet(word) \subseteq letters_set) THEN 112
    ELSE IF filter_plurals /\ _is_likely_plural(word) THEN 114
    ELSE IF filter_obscure /\ _is_obscure_word(word) THEN 116
    ELSE 117

ValidWordExit(word, letters_set, center, min_len, filter_plurals, filter_obscure) ==
    IF Len(word) < min_len THEN 108
    ELSE IF ~Contains(word, center) THEN 110
    ELSE IF ~(CharSet(word) \subseteq letters_set) THEN 112
    ELSE IF filter_plurals /\ _is_likely_plural(word) THEN 114
    ELSE IF filter_obscure /\ _is_obscure_word(word) THEN 116
    ELSE 117

_is_valid_word(word, letters_set, center, min_len, filter_plurals, filter_obscure) ==
    ValidWordExit(word, letters_set, center, min_len, filter_plurals, filter_obscure) = 117

(***************************************************************************)
(* Scorer                                                                  *)
(***************************************************************************)
_is_pangram(word, letters_set) == letters_set \subseteq CharSet(word)

\* _score_word with the bonus given to every word
ScoreWordBonusAlways(word, letters_set, pangram_bonus) ==
    LET is_pg == _is_pangram(word, letters_set)
        base  == IF Len(word) = 4 THEN 1 ELSE Len(word)
    IN  << base + pangram_bonus, is_pg >>

_score_word(word, letters_set, pangram_bonus) ==
    LET is_pg == _is_pangram(word, letters_set)
        base  == IF Len(word) = 4 THEN 1 ELSE Len(word)
    IN  << base + (IF is_pg THEN pangram_bonus ELSE 0), is_pg >>

(***************************************************************************)
(* Frequency oracle: wordfreq's zipf_frequency(word, "en"), in hundredths. *)
(* A word wordfreq does not know scores 0.                                 *)
(***************************************************************************)
ZipfData ==
    << << <<"r","e","n","t","a","l">>, 450 >>,
       << <<"l","e","a","r","n","t">>, 300 >>,
       << <<"s","t","e","r","n","a","l">>, 370 >>,
       << <<"a","n","t","s">>, 420 >>,
       << <<"l","e","a","n">>, 440 >>,
       << <<"t","a","l","e","n","t">>, 480 >>,
       << <<"r","e","n","t","s">>, 430 >>,
       << <<"a","n","t","e","n","n","a","e">>, 370 >>,
       << <<"a","l","t","e","r","n","a","t","e">>, 400 >>,
       << <<"a","l","e","r","t","n","e","s","s">>, 420 >>,
       << <<"l","a","t","e","n","e","s","s">>, 390 >>,
       << <<"e","a","r","n","e","s","t","n","e","s","s">>, 380 >>,
       << <<"t","e","n","a","n","t","s">>, 450 >>,
       << <<"e","t","e","r","n","a","l">>, 360 >>,
       << <<"e","n","t","r","e","a","t">>, 310 >> >>

zipf_frequency(word) ==
    IF \E k \in 1..Len(ZipfData) : ZipfData[k][1] = word
    THEN LET k == CHOOSE j \in 1..Len(ZipfData) : ZipfData[j][1] = word
         IN  ZipfData[k][2]
    ELSE 0

\* lru_cache(maxsize=50000), line 62: the model's cache keeps MaxCache entries,
\* least recently used first
MaxCache == 2

RemoveAt(seq, k) == SubSeq(seq, 1, k - 1) \o SubSeq(seq, k + 1, Len(seq))

\* _get_zipf whose cache hit answers with the least recently used entry's value
GetZipfWrongEntry(cache, available, word) ==
    LET hit == {k \in 1..Len(cache) : cache[k].key = word}
    IN  IF hit # {}
        THEN LET k == CHOOSE j \in hit : TRUE
             IN  [value |-> cache[1].value,
                  cache |-> Append(RemoveAt(cache, k), cache[k])]
        ELSE LET v  == IF ~available THEN 0 ELSE zipf_frequency(word)
                 c2 == Append(cache, [key |-> word, value |-> v])
             IN  [value |-> v,
                  cache |-> IF Len(c2) > MaxCache THEN Tail(c2) ELSE c2]

\* _get_zipf whose cache hit answers 0.0
GetZipfHitReturnsNeutral(cache, available, word) ==
    LET hit == {k \in 1..Len(cache) : cache[k].key = word}
    IN  IF hit # {}
        THEN LET k == CHOOSE j \in hit : TRUE
             IN  [value |-> 0,
                  cache |-> Append(RemoveAt(cache, k), cache[k])]
        ELSE LET v  == IF ~available THEN 0 ELSE zipf_frequency(word)
                 c2 == Append(cache, [key |-> word, value |-> v])
             IN  [value |-> v,
                  cache |-> IF Len(c2) > MaxCache THEN Tail(c2) ELSE c2]

\* _get_zipf(word) on the cache: the value returned and the cache left behind
_get_zipf(cache, available, word) ==
    LET hit == {k \in 1..Len(cache) : cache[k].key = word}
    IN  IF hit # {}
        THEN LET k == CHOOSE j \in hit : TRUE
             IN  [value |-> cache[k].value,
                  cache |-> Append(RemoveAt(cache, k), cache[k])]
        ELSE LET v  == IF ~available THEN 0 ELSE zipf_frequency(word)
                 c2 == Append(cache, [key |-> word, value |-> v])
             IN  [value |-> v,
                  cache |-> IF Len(c2) > MaxCache THEN Tail(c2) ELSE c2]

(***************************************************************************)
(* solve_spellingbee                                                       *)
(***************************************************************************)
\* the letters and center taken as given, not lowercased
NormalizeNoLower(args) ==
    [letters_set     |-> CharSet(args.letters),
     center          |-> args.center,
     min_len         |-> args.min_len,
     pangram_bonus   |-> args.pangram_bonus,
     min_zipf        |-> args.min_zipf,
     max_len         |-> args.max_len,
     filter_plurals  |-> args.filter_plurals,
     filter_obscure  |-> args.filter_obscure,
     use_aggressive_filtering |-> args.use_aggressive_filtering]

\* lines 141-145: the lowercased letters and center
Normalize(args) ==
    [letters_set     |-> CharSet(Lower(args.letters)),
     center          |-> Lower(args.center),
     min_len         |-> args.min_len,
     pangram_bonus   |-> args.pangram_bonus,
     min_zipf        |-> args.min_zipf,
     max_len         |-> args.max_len,
     filter_plurals  |-> args.filter_plurals,
     filter_obscure  |-> args.filter_obscure,
     use_aggressive_filtering |-> args.use_aggressive_filtering]

\* lines 147-150: the line of the raise, 0 when the configuration is accepted
ConfigRaise(a) ==
    IF Cardinality(a.letters_set) # 7 THEN 148
    ELSE IF ~(Len(a.center) = 1 /\ a.center[1] \in a.letters_set) THEN 150
    ELSE 0

\* lines 164-171 without the second aggressive check (lines 170-171)
FrequencyExitNoLongWordCheck(word, a, zipf_score) ==
    IF zipf_score < Val(a.min_zipf) THEN 165
    ELSE IF a.use_aggressive_filtering /\ Len(word) >= 8
            /\ zipf_score < Val(a.min_zipf) + 30 THEN 169
    ELSE 174

\* lines 164-171 for a looked-up score: the line of the continue, 174 when kept
FrequencyExit(word, a, zipf_score) ==
    IF zipf_score < Val(a.min_zipf) THEN 165
    ELSE IF a.use_aggressive_filtering /\ Len(word) >= 8
            /\ zipf_score < Val(a.min_zipf) + 30 THEN 169
    ELSE IF a.use_aggressive_filtering /\ Len(word) >= 9
            /\ zipf_score < Val(a.min_zipf) + 50 THEN 171
    ELSE 174

\* the loop body with the frequency lookup hoisted above the cheap checks
ProcessWordLookupFirst(word, a, available, cache) ==
    LET v == ValidWordExit(word, a.letters_set, a.center, a.min_len,
                           a.filter_plurals, a.filter_obscure)
        wanted == ~IsNone(a.min_zipf) /\ available
        g == _get_zipf(cache, available, word)
        c == IF wanted THEN g.cache ELSE cache
    IN  IF ~_is_valid_word(word, a.letters_set, a.center, a.min_len,
                           a.filter_plurals, a.filter_obscure)
        THEN [exit |-> v, zipf_score |-> 0, cache |-> c, lookup |-> wanted]
        ELSE IF ~IsNone(a.max_len) /\ Len(word) > Val(a.max_len)
        THEN [exit |-> 159, zipf_score |-> 0, cache |-> c, lookup |-> wanted]
        ELSE IF wanted
        THEN [exit |-> FrequencyExit(word, a, g.value), zipf_score |-> g.value,
              cache |-> c, lookup |-> TRUE]
        ELSE [exit |-> 174, zipf_score |-> 0, cache |-> cache, lookup |-> FALSE]

\* the loop body with line 162 testing min_zipf alone
ProcessWordNoAvailabilityCheck(word, a, available, cache) ==
    LET v == ValidWordExit(word, a.letters_set, a.center, a.min_len,
                           a.filter_plurals, a.filter_obscure)
    IN  IF ~_is_valid_word(word, a.letters_set, a.center, a.min_len,
                           a.filter_plurals, a.filter_obscure)
        THEN [exit |-> v, zipf_score |-> 0, cache |-> cache, lookup |-> FALSE]
        ELSE IF ~IsNone(a.max_len) /\ Len(word) > Val(a.max_len)
        THEN [exit |-> 159, zipf_score |-> 0, cache |-> cache, lookup |-> FALSE]
        ELSE IF ~IsNone(a.min_zipf)
        THEN LET g == _get_zipf(cache, available, word)
             IN  [exit |-> FrequencyExit(word, a, g.value), zipf_score |-> g.value,
                  cache |-> g.cache, lookup |-> TRUE]
        ELSE [exit |-> 174, zipf_score |-> 0, cache |-> cache, lookup |-> FALSE]

\* lines 155-171, one dictionary entry: the line it leaves the body through
\* (174: appended), the score recorded, the cache, whether _get_zipf was called
ProcessWord(word, a, available, cache) ==
    LET v == ValidWordExit(word, a.letters_set, a.center, a.min_len,
                           a.filter_plurals, a.filter_obscure)
    IN  IF ~_is_valid_word(word, a.letters_set, a.center, a.min_len,
                           a.filter_plurals, a.filter_obscure)
        THEN [exit |-> v, zipf_score |-> 0, cache |-> cache, lookup |-> FALSE]
        ELSE IF ~IsNone(a.max_len) /\ Len(word) > Val(a.max_len)
        THEN [exit |-> 159, zipf_score |-> 0, cache |-> cache, lookup |-> FALSE]
        ELSE IF ~IsNone(a.min_zipf) /\ available
        THEN LET g == _get_zipf(cache, available, word)
             IN  [exit |-> FrequencyExit(word, a, g.value), zipf_score |-> g.value,
                  cache |-> g.cache, lookup |-> TRUE]
        ELSE [exit |-> 174, zipf_score |-> 0, cache |-> cache, lookup |-> FALSE]

\* lines 173-180
WordResult(word, a, zipf_score) ==
    LET sc == _score_word(word, a.letters_set, a.pangram_bonus)
    IN  [word |-> word, score |-> sc[1], is_pangram |-> sc[2],
         length |-> Len(word), zipf_score |-> zipf_score]

\* a sort key of -r.score alone
KeyLessScoreOnly(r1, r2) == r1.score > r2.score

\* the sort key (-r.score, r.word): r1's key is smaller than r2's
KeyLess(r1, r2) ==
    \/ r1.score > r2.score
    \/ r1.score = r2.score /\ StrLess(r1.word, r2.word)

\* list.sort is stable: r goes before the first element with a larger key
RECURSIVE InsertSorted(_, _)
InsertSorted(sorted, r) ==
    IF sorted = << >> THEN << r >>
    ELSE IF KeyLess(r, Head(sorted)) THEN << r >> \o sorted
    ELSE << Head(sorted) >> \o InsertSorted(Tail(sorted), r)

RECURSIVE SortFrom(_, _, _)
SortFrom(results, k, sorted) ==
    IF k > Len(results) THEN sorted
    ELSE SortFrom(results, k + 1, InsertSorted(sorted, results[k]))

\* results.sort(key=lambda r: (-r.score, r.word))
SortResults(results) == SortFrom(results, 1, << >>)

\* lines 154-180: the loop over the entries the word source yields
RECURSIVE SolveLoop(_, _, _, _, _, _, _)
SolveLoop(words, k, a, available, cache, results, log) ==
    IF k > Len(words)
    THEN [results |-> results, cache |-> cache, log |-> log]
    ELSE LET p == ProcessWord(words[k], a, available, cache)
             e == [word |-> words[k], exit |-> p.exit, lookup |-> p.lookup]
         IN  SolveLoop(words, k + 1, a, available, p.cache,
                       IF p.exit = 174
                       THEN Append(results, WordResult(words[k], a, p.zipf_score))
                       ELSE results,
                       Append(log, e))

\* solve_spellingbee(letters, center, wordlist_path, ...) on the entries
\* _load_words yields: what it returns or raises, the cache it leaves, and per
\* entry the exit taken
solve_spellingbee(args, words, available, cache) ==
    LET a == Normalize(args)
    IN  IF ConfigRaise(a) # 0
        THEN [kind |-> "raise", exc |-> "ValueError", line |-> ConfigRaise(a),
              cache |-> cache, log |-> << >>]
        ELSE LET r == SolveLoop(words, 1, a, available, cache, << >>, << >>)
             IN  [kind |-> "return", value |-> SortResults(r.results),
                  cache |-> r.cache, log |-> r.log]

(***************************************************************************)
(* Word sources: the lines of wordlist.txt                                 *)
(***************************************************************************)
WordListA ==
    << <<"r","e","n","t","a","l">>,
       <<"L","e","a","r","n","t">>,
       <<"s","t","e","r","n","a","l">>,
       <<"a","n","t","s">>,
       <<" ","l","e","a","n">>,
       <<"L","e","a","n">>,
       <<"t","a","l","e">>,
       <<"n","e","t">>,
       <<"l","e","a","r","n","t"," ","s">>,
       <<"r","e","n","t","s">>,
       <<"n","a","n","n","a","n">>,
       <<"t","a","l","e","n","t">>,
       <<"l","a","t","e","r">>,
       <<"n","a","t","i","o","n">> >>

WordListB ==
    << <<"a","n","t","e","n","n","a","e">>,
       <<"a","l","t","e","r","n","a","t","e">>,
       <<"a","l","e","r","t","n","e","s","s">>,
       <<"e","a","r","n","e","s","t","n","e","s","s">>,
       <<"t","e","n","a","n","t","s">>,
       <<"l","a","t","e","n","e","s","s">>,
       <<"e","t","e","r","n","a","l">>,
       <<"a","l","t","e","r","n","a","t","e","n","e","s","s","e","s">>,
       <<"e","n","t","r","e","a","t">>,
       <<"r","e","n","t","a","l">> >>

\* a source short enough for the cache to keep every score it looked up
WordListC ==
    << <<"r","e","n","t","a","l">>,
       <<"l","e","a","r","n","t">>,
       <<"t","a","l","e">> >>

WordLists == {WordListA, WordListB, WordListC}

\* _load_words(Path(wordlist_path)) for each word source
LoadedWords == [lines \in WordLists |-> _load_words(lines)]

(***************************************************************************)
(* Presentation: the lines print_hints and print_results write             *)
(***************************************************************************)
\* s.upper()
Upper(s) ==
    [k \in 1..Len(s) |-> IF IsLowerAlpha(s[k]) THEN Chars[Ord(s[k]) - 26] ELSE s[k]]

\* Counter(f(r) for r in results) as (key, count) pairs in first-seen order
RECURSIVE CountKeys(_, _, _)
CountKeys(keys, k, counted) ==
    IF k > Len(keys) THEN counted
    ELSE IF \E j \in 1..Len(counted) : counted[j][1] = keys[k]
    THEN CountKeys(keys, k + 1,
            [j \in 1..Len(counted) |->
                IF counted[j][1] = keys[k]
                THEN << counted[j][1], counted[j][2] + 1 >> ELSE counted[j]])
    ELSE CountKeys(keys, k + 1, Append(counted, << keys[k], 1 >>))

Counter(keys) == CountKeys(keys, 1, << >>)

\* Counter.most_common: by count, largest first, ties in first-seen order
RECURSIVE InsertByCount(_, _)
InsertByCount(sorted, item) ==
    IF sorted = << >> THEN << item >>
    ELSE IF item[2] > Head(sorted)[2] THEN << item >> \o sorted
    ELSE << Head(sorted) >> \o InsertByCount(Tail(sorted), item)

RECURSIVE MostCommonFrom(_, _, _)
MostCommonFrom(counted, k, sorted) ==
    IF k > Len(counted) THEN sorted
    ELSE MostCommonFrom(counted, k + 1, InsertByCount(sorted, counted[k]))

MostCommon(counted, n) ==
    LET all == MostCommonFrom(counted, 1, << >>)
    IN  SubSeq(all, 1, IF Len(all) < n THEN Len(all) ELSE n)

RECURSIVE SumScores(_, _)
SumScores(results, k) ==
    IF k > Len(results) THEN 0 ELSE results[k].score + SumScores(results, k + 1)

\* f"  zipf={r.zipf_score:.1f}" if r.zipf_score > 0 else ""
ZipfInfo(r) == IF r.zipf_score > 0 THEN << r.zipf_score >> ELSE << >>

print_hints(results) ==
    LET by_first_letter   == Counter([k \in 1..Len(results) |->
                                 Upper(SubSeq(results[k].word, 1, 1))])
        two_letter_starts == Counter([k \in 1..Len(results) |->
                                 Upper(SubSeq(results[k].word, 1, 2))])
        top == MostCommon(two_letter_starts, 10)
    IN  << [kind |-> "hints_by_first_letter",
            counts |-> {by_first_letter[k] : k \in 1..Len(by_first_letter)}] >>
        \o [k \in 1..Len(top) |->
              [kind |-> "hints_two_letter_start", start |-> top[k][1], count |-> top[k][2]]]

print_results(results, show_top_n, show_hints) ==
    LET n        == IF show_top_n < Len(results) THEN show_top_n ELSE Len(results)
        lengths  == Counter([k \in 1..Len(results) |-> results[k].length])
        pgIdx    == {k \in 1..Len(results) : results[k].is_pangram}
        pangrams == SelectSeq(results, LAMBDA r : r.is_pangram)
    IN  << [kind |-> "summary", words_found |-> Len(results),
            total_points |-> SumScores(results, 1),
            pangrams |-> Cardinality(pgIdx),
            by_length |-> {lengths[k] : k \in 1..Len(lengths)}] >>
        \o (IF results # << >> /\ results[1].zipf_score > 0
            THEN << [kind |-> "average_zipf"] >> ELSE << >>)
        \o (IF show_hints THEN print_hints(results) ELSE << >>)
        \o << [kind |-> "top_header", n |-> n] >>
        \o [k \in 1..n |->
              [kind |-> "word", text |-> Upper(results[k].word),
               len |-> results[k].length, score |-> results[k].score,
               pangram |-> results[k].is_pangram, zipf |-> ZipfInfo(results[k])]]
        \o (IF pangrams # << >>
            THEN << [kind |-> "pangrams_header"] >>
                 \o [k \in 1..Len(pangrams) |->
                       [kind |-> "pangram", text |-> Upper(pangrams[k].word),
                        score |-> pangrams[k].score, zipf |-> ZipfInfo(pangrams[k])]]
            ELSE << >>)

(***************************************************************************)
(* Inputs                                                                  *)
(***************************************************************************)
\* LETTERS and CENTER of the source, and variations of them
LetterInputs ==
    { <<"A","E","L","N","R","S","T">>, <<"A","E","L","N","R","S","T","t">>,
      <<"A","E","L","N","R","S","s">>, <<"A","E","L","N","R","S","T","O">> }

CenterInputs == { <<"N">>, <<"O">> }

MinLens == {4, 5}

\* the signature's defaults (lines 131-138) on the source's puzzle
Defaults ==
    [letters |-> <<"A","E","L","N","R","S","T">>, center |-> <<"N">>,
     min_len |-> 4, pangram_bonus |-> 7, min_zipf |-> << >>, max_len |-> << 10 >>,
     filter_plurals |-> TRUE, filter_obscure |-> TRUE,
     use_aggressive_filtering |-> FALSE]

\* every combination of filter options on the source's puzzle, and every
\* puzzle configuration under the default options
SolveInputs ==
    { [Defaults EXCEPT !.min_zipf = z, !.max_len = m, !.filter_plurals = fp,
                       !.filter_obscure = fo, !.use_aggressive_filtering = ag] :
        z \in {<< >>, << 360 >>}, m \in {<< >>, << 10 >>},
        fp \in BOOLEAN, fo \in BOOLEAN, ag \in BOOLEAN }
    \cup
    { [Defaults EXCEPT !.letters = l, !.center = c, !.min_len = n] :
        l \in LetterInputs, c \in CenterInputs, n \in MinLens }

MaxCalls == 2

MaxUnitLen == 5

UnitAlphabet == {"e", "n", "s", "u"}

\* words with each ending _is_likely_plural tests
SuffixWords ==
    { <<"f","a","m","o","u","s">>, <<"c","u","r","i","o","u","s">>,
      <<"e","n","d","l","e","s","s">>, <<"k","i","n","d","n","e","s","s">>,
      <<"b","o","n","u","s">>, <<"g","l","a","s","s">>,
      <<"a","r","t","s">>, <<"t","a","b","l","e","s">>,
      <<"o","n","u","s">>, <<"b","o","s","s">> }

\* the entries of the word sources, words with the tested endings, and every
\* short word over UnitAlphabet
UnitWords ==
    SuffixWords \cup
    UNION {{LoadedWords[l][k] : k \in 1..Len(LoadedWords[l])} : l \in WordLists}
    \cup UNION {[1..n -> UnitAlphabet] : n \in 1..MaxUnitLen}

(***************************************************************************)
(* The process                                                             *)
(***************************************************************************)
VARIABLES
    pc,                 \* "idle", "returned" (a solve call has returned or raised), "exited"
    WORDFREQ_AVAILABLE, \* whether the import of wordfreq succeeded (lines 39-44)
    wordlist,           \* the lines of the word source
    cache,              \* _get_zipf's lru_cache
    call,               \* the latest call: the function and its arguments
    ret,                \* what the latest call returned or raised
    log,                \* per dictionary entry of the latest solve: exit line, lookup
    first,              \* the first solve call of the process and its outcome
    calls,              \* solve calls made so far
    stdout              \* the lines printed

vars == << pc, WORDFREQ_AVAILABLE, wordlist, cache, call, ret, log, first, calls, stdout >>

NoCall == [fn |-> "none"]

NoRet == [kind |-> "none"]

Init ==
    /\ pc = "idle"
    /\ WORDFREQ_AVAILABLE \in BOOLEAN
    /\ wordlist \in WordLists
    /\ cache = << >>
    /\ call = NoCall
    /\ ret = NoRet
    /\ log = << >>
    /\ first = NoRet
    /\ calls = 0
    /\ stdout = << >>

\* a caller calls solve_spellingbee(...) and gets its list or its exception
Solve ==
    /\ pc = "idle"
    /\ calls < MaxCalls
    /\ \E args \in SolveInputs :
         LET r == solve_spellingbee(args, LoadedWords[wordlist], WORDFREQ_AVAILABLE, cache)
             out == IF r.kind = "raise"
                    THEN [kind |-> "raise", exc |-> r.exc, line |-> r.line]
                    ELSE [kind |-> "return", value |-> r.value]
         IN  /\ call' = [fn |-> "solve_spellingbee", args |-> args]
             /\ ret' = out
             /\ cache' = r.cache
             /\ log' = r.log
             /\ first' = IF first.kind = "none"
                         THEN [kind |-> "call", args |-> args, ret |-> out]
                         ELSE first
    /\ calls' = calls + 1
    /\ pc' = "returned"
    /\ UNCHANGED << WORDFREQ_AVAILABLE, wordlist, stdout >>

\* the caller drops the result and goes on; the cache stays
CallerContinues ==
    /\ pc = "returned"
    /\ pc' = "idle"
    /\ call' = NoCall
    /\ ret' = NoRet
    /\ log' = << >>
    /\ UNCHANGED << WORDFREQ_AVAILABLE, wordlist, cache, first, calls, stdout >>

\* the memory of a process that ends
Exit ==
    /\ pc' = "exited"
    /\ cache' = << >>
    /\ log' = << >>
    /\ first' = NoRet
    /\ calls' = 0
    /\ UNCHANGED << WORDFREQ_AVAILABLE, wordlist >>

\* SHOW_TOP_N of the source, and a listing cut short
TopNs == {1, 50}

\* main, lines 271-296: the list of the one solve call made is presented and
\* the process ends
PrintResults ==
    /\ pc = "returned"
    /\ calls = 1
    /\ ret.kind = "return"
    /\ \E show_top_n \in TopNs, show_hints \in BOOLEAN :
         /\ call' = [fn |-> "print_results", results |-> ret.value,
                     show_top_n |-> show_top_n, show_hints |-> show_hints]
         /\ stdout' = stdout \o print_results(ret.value, show_top_n, show_hints)
    /\ ret' = NoRet
    /\ Exit

\* a fresh process calls one helper and ends
CallIsLikelyPlural ==
    /\ pc = "idle"
    /\ calls = 0
    /\ \E word \in UnitWords :
         /\ call' = [fn |-> "_is_likely_plural", word |-> word]
         /\ ret' = [kind |-> "return", value |-> _is_likely_plural(word)]
    /\ stdout' = stdout
    /\ Exit

PangramBonuses == {0, 7}

CallScoreWord ==
    /\ pc = "idle"
    /\ calls = 0
    /\ \E word \in UnitWords, pangram_bonus \in PangramBonuses :
         LET letters_set == CharSet(Lower(Defaults.letters))
         IN  /\ call' = [fn |-> "_score_word", word |-> word,
                         letters_set |-> letters_set, pangram_bonus |-> pangram_bonus]
             /\ ret' = [kind |-> "return",
                        value |-> _score_word(word, letters_set, pangram_bonus)]
    /\ stdout' = stdout
    /\ Exit

CallGetZipf ==
    /\ pc = "idle"
    /\ calls = 0
    /\ \E k \in 1..Len(ZipfData) :
         /\ call' = [fn |-> "_get_zipf", word |-> ZipfData[k][1]]
         /\ ret' = [kind |-> "return",
                    value |-> _get_zipf(cache, WORDFREQ_AVAILABLE, ZipfData[k][1]).value]
    /\ stdout' = stdout
    /\ Exit

Next ==
    \/ Solve
    \/ CallerContinues
    \/ PrintResults
    \/ CallIsLikelyPlural
    \/ CallScoreWord
    \/ CallGetZipf

Spec == Init /\ [][Next]_vars

(***************************************************************************)
(* Properties                                                              *)
(***************************************************************************)
SolveDone == pc = "returned" /\ call.fn = "solve_spellingbee"

SolveReturned == SolveDone /\ ret.kind = "return"

\* the lowercased puzzle letters and center of a call's arguments
PuzzleLetters(args) == {LowerChar(args.letters[k]) : k \in 1..Len(args.letters)}

PuzzleCenter(args) == [k \in 1..Len(args.center) |-> LowerChar(args.center[k])]

LogExits == {log[k].exit : k \in 1..Len(log)}

\* C1: every word of the returned list has length >= min_len, contains the
\* lowercased center letter and uses only lowercased puzzle letters.
C1_ResultWordsAreLegal ==
    SolveReturned =>
        \A k \in 1..Len(ret.value) :
            LET word == ret.value[k].word
            IN  /\ Len(word) >= call.args.min_len
                /\ \E j \in 1..Len(word) : << word[j] >> = PuzzleCenter(call.args)
                /\ \A j \in 1..Len(word) : word[j] \in PuzzleLetters(call.args)

\* a solve with min_len 5 kept a word and turned entries away for their
\* length, for the missing center and for a foreign letter
C1_Witness ==
    /\ SolveReturned
    /\ call.args.min_len = 5
    /\ ret.value # << >>
    /\ {108, 110, 112} \subseteq LogExits

\* s <= t, character by character
RECURSIVE LexLeq(_, _)
LexLeq(s, t) ==
    IF s = << >> THEN TRUE
    ELSE IF t = << >> THEN FALSE
    ELSE \/ Ord(Head(s)) < Ord(Head(t))
         \/ Head(s) = Head(t) /\ LexLeq(Tail(s), Tail(t))

\* C2: in the returned list, for A before B: A.score > B.score, or the scores
\* are equal and A.word <= B.word.
C2_SortedByScoreThenWord ==
    SolveReturned =>
        \A i, j \in 1..Len(ret.value) :
            i < j =>
                \/ ret.value[i].score > ret.value[j].score
                \/ /\ ret.value[i].score = ret.value[j].score
                   /\ LexLeq(ret.value[i].word, ret.value[j].word)

LogPos(word) == CHOOSE k \in 1..Len(log) : log[k].word = word /\ \A j \in 1..(k - 1) : log[j].word # word

\* the list holds different scores and two words of equal score that the
\* word source gave in the other order
C2_Witness ==
    /\ SolveReturned
    /\ \E i, j \in 1..Len(ret.value) : ret.value[i].score # ret.value[j].score
    /\ \E i, j \in 1..Len(ret.value) :
          /\ i < j
          /\ ret.value[i].score = ret.value[j].score
          /\ ret.value[i].word # ret.value[j].word
          /\ LogPos(ret.value[i].word) > LogPos(ret.value[j].word)

EveryLetterOccurs(word, letters) == \A c \in letters : \E k \in 1..Len(word) : word[k] = c

Points(word, letters, bonus) ==
    (IF Len(word) = 4 THEN 1 ELSE Len(word))
    + (IF EveryLetterOccurs(word, letters) THEN bonus ELSE 0)

\* C3: _score_word returns (points, is_pangram): is_pangram exactly when every
\* puzzle letter occurs in the word, points 1 for length 4 and the length
\* otherwise, plus the bonus exactly for a pangram; every WordResult of a
\* solve carries this score and flag and the word's length.
C3_ScoreAndPangram ==
    /\ (pc = "exited" /\ call.fn = "_score_word") =>
          ret.value = << Points(call.word, call.letters_set, call.pangram_bonus),
                         EveryLetterOccurs(call.word, call.letters_set) >>
    /\ SolveReturned =>
          \A k \in 1..Len(ret.value) :
              LET r == ret.value[k]
              IN  /\ r.score = Points(r.word, PuzzleLetters(call.args),
                                      call.args.pangram_bonus)
                  /\ r.is_pangram = EveryLetterOccurs(r.word, PuzzleLetters(call.args))
                  /\ r.length = Len(r.word)

\* the list holds a pangram, a four-letter word and a longer word that is no pangram
C3_Witness ==
    /\ SolveReturned
    /\ \E k \in 1..Len(ret.value) : ret.value[k].is_pangram
    /\ \E k \in 1..Len(ret.value) : Len(ret.value[k].word) = 4
    /\ \E k \in 1..Len(ret.value) :
          Len(ret.value[k].word) > 4 /\ ~ret.value[k].is_pangram

\* C4: solve_spellingbee raises, and returns no list, exactly when the
\* lowercased letters are not 7 distinct ones or the lowercased center is not
\* one of them.
C4_ConfigurationError ==
    SolveDone =>
        LET bad == \/ Cardinality(PuzzleLetters(call.args)) # 7
                   \/ ~\E c \in PuzzleLetters(call.args) : << c >> = PuzzleCenter(call.args)
        IN  /\ bad <=> ret.kind = "raise"
            /\ bad => /\ ret.exc = "ValueError"
                      /\ "value" \notin DOMAIN ret
                      /\ log = << >>
            /\ ~bad => ret.kind = "return"

\* seven distinct characters that are six letters once lowercased were refused
C4_Witness ==
    /\ SolveDone
    /\ ret.kind = "raise"
    /\ Cardinality(CharSet(call.args.letters)) = 7
    /\ Cardinality(PuzzleLetters(call.args)) = 6

FrequencyExits == {165, 169, 171}

WithoutThreshold(args) == [args EXCEPT !.min_zipf = << >>]

\* C5: with the frequency service absent, no entry is turned away on
\* frequency grounds whatever min_zipf and use_aggressive_filtering are: the
\* outcome is that of the call with min_zipf None and the same other options,
\* and every zipf_score is 0, the value _get_zipf gives without the service.
C5_DegradedMode ==
    /\ (pc = "exited" /\ call.fn = "_get_zipf" /\ ~WORDFREQ_AVAILABLE) => ret.value = 0
    /\ (SolveDone /\ ~WORDFREQ_AVAILABLE) =>
        /\ LogExits \cap FrequencyExits = {}
        /\ \A k \in 1..Len(log) : ~log[k].lookup
        /\ ret.kind = "return" => \A k \in 1..Len(ret.value) : ret.value[k].zipf_score = 0
        /\ (first.kind = "call" /\ WithoutThreshold(first.args) = WithoutThreshold(call.args))
              => ret = first.ret

\* without the service, a call with a threshold and aggressive filtering
\* followed the same call without a threshold, and kept words
C5_Witness ==
    /\ SolveReturned
    /\ ~WORDFREQ_AVAILABLE
    /\ first.kind = "call"
    /\ IsNone(first.args.min_zipf)
    /\ ~IsNone(call.args.min_zipf)
    /\ call.args.use_aggressive_filtering
    /\ WithoutThreshold(first.args) = WithoutThreshold(call.args)
    /\ ret.value # << >>

WithoutAggressive(args) == [args EXCEPT !.use_aggressive_filtering = FALSE]

\* C6: with a threshold and the oracle, every result records the oracle's
\* score for its word, not below the threshold; with aggressive filtering a
\* result of length >= 8 scores >= threshold + 0.3 and one of length >= 9
\* >= threshold + 0.5; aggressive filtering without a threshold rejects nothing.
C6_FrequencyThresholds ==
    /\ (SolveReturned /\ WORDFREQ_AVAILABLE /\ ~IsNone(call.args.min_zipf)) =>
          \A k \in 1..Len(ret.value) :
              LET r == ret.value[k]
                  t == Val(call.args.min_zipf)
              IN  /\ r.zipf_score = zipf_frequency(r.word)
                  /\ r.zipf_score >= t
                  /\ call.args.use_aggressive_filtering =>
                        /\ Len(r.word) >= 8 => r.zipf_score >= t + 30
                        /\ Len(r.word) >= 9 => r.zipf_score >= t + 50
    /\ (SolveDone /\ IsNone(call.args.min_zipf)) =>
          /\ LogExits \cap FrequencyExits = {}
          /\ (first.kind = "call" /\ WithoutAggressive(first.args) = WithoutAggressive(call.args))
                => ret = first.ret

\* with threshold, oracle and aggressive filtering the list keeps a word of
\* length 8 and one of length 9, and entries left at each frequency check
C6_Witness ==
    /\ SolveReturned
    /\ WORDFREQ_AVAILABLE
    /\ ~IsNone(call.args.min_zipf)
    /\ call.args.use_aggressive_filtering
    /\ \E k \in 1..Len(ret.value) : Len(ret.value[k].word) = 8
    /\ \E k \in 1..Len(ret.value) : Len(ret.value[k].word) >= 9
    /\ FrequencyExits \subseteq LogExits

\* C7: a solve call with the arguments and word source of the process's
\* first call returns what the first call returned, whatever the cache holds.
C7_Idempotent ==
    (SolveDone /\ first.kind = "call" /\ first.args = call.args) => ret = first.ret

\* a later call repeated the first one on a cache the first one filled
C7_Witness ==
    /\ SolveReturned
    /\ calls >= 2
    /\ first.kind = "call"
    /\ first.args = call.args
    /\ WORDFREQ_AVAILABLE
    /\ \E k \in 1..Len(log) : log[k].lookup
    /\ ret.value # << >>

Suffix(word, n) == SubSeq(word, Len(word) - n + 1, Len(word))

ExceptionSuffixes ==
    { <<"o","u","s">>, <<"n","e","s","s">>, <<"l","e","s","s">>,
      <<"i","o","u","s">>, <<"u","s">> }

PluralShape(word) ==
    /\ Len(word) > 4
    /\ word[Len(word)] = "s"
    /\ word[Len(word) - 1] # "s"
    /\ \A e \in ExceptionSuffixes : ~(Len(e) <= Len(word) /\ Suffix(word, Len(e)) = e)

\* C8: _is_likely_plural flags a word exactly when it ends in "s", is longer
\* than 4, does not end in "ss" and ends in none of "ous", "ness", "less",
\* "ious", "us"; no word of length <= 4 is flagged; with filter_plurals no
\* flagged word is in the returned list.
C8_PluralHeuristic ==
    /\ (pc = "exited" /\ call.fn = "_is_likely_plural") =>
          /\ ret.value <=> PluralShape(call.word)
          /\ Len(call.word) <= 4 => ~ret.value
    /\ (SolveReturned /\ call.args.filter_plurals) =>
          \A k \in 1..Len(ret.value) : ~PluralShape(ret.value[k].word)

\* with filter_plurals a plural was turned away and a four-letter word ending
\* in "s" was kept
C8_Witness ==
    /\ SolveReturned
    /\ call.args.filter_plurals
    /\ 114 \in LogExits
    /\ \E k \in 1..Len(ret.value) :
          Len(ret.value[k].word) = 4 /\ ret.value[k].word[4] = "s"

Reveals(line, word) == line.kind \in {"word", "pangram"} /\ line.text = Upper(word)

\* C9: with show_hints the presentation prints counts by first letter and by
\* first two letters and none of the result words.
C9_HintsRevealNoWord ==
    (pc = "exited" /\ call.fn = "print_results" /\ call.show_hints) =>
        \A k \in 1..Len(stdout), j \in 1..Len(call.results) :
            ~Reveals(stdout[k], call.results[j].word)

\* the check behind each exit line, on a call's arguments
Fails(line, word, args) ==
    LET t == Val(args.min_zipf)
        scored == ~IsNone(args.min_zipf) /\ WORDFREQ_AVAILABLE
    IN  CASE line = 108 -> Len(word) < args.min_len
          [] line = 110 -> ~\E j \in 1..Len(word) : << word[j] >> = PuzzleCenter(args)
          [] line = 112 -> \E j \in 1..Len(word) : word[j] \notin PuzzleLetters(args)
          [] line = 114 -> args.filter_plurals /\ PluralShape(word)
          [] line = 116 -> args.filter_obscure /\ _is_obscure_word(word)
          [] line = 159 -> ~IsNone(args.max_len) /\ Len(word) > Val(args.max_len)
          [] line = 165 -> scored /\ zipf_frequency(word) < t
          [] line = 169 -> /\ scored /\ args.use_aggressive_filtering
                           /\ Len(word) >= 8 /\ zipf_frequency(word) < t + 30
          [] line = 171 -> /\ scored /\ args.use_aggressive_filtering
                           /\ Len(word) >= 9 /\ zipf_frequency(word) < t + 50

FirstFailing(order, word, args) ==
    LET failing == {k \in 1..Len(order) : Fails(order[k], word, args)}
    IN  IF failing = {} THEN 174
        ELSE order[CHOOSE k \in failing : \A j \in failing : k <= j]

CheapChecks == {108, 110, 112, 114, 116, 159}

\* validator, length cap, plural, obscurity, frequency, aggressive
StatedOrder == << 108, 110, 112, 159, 114, 116, 165, 169, 171 >>

\* validator, plural, obscurity, length cap, frequency, aggressive
CodeOrder == << 108, 110, 112, 114, 116, 159, 165, 169, 171 >>

\* C10 as stated: each entry leaves at the first failing check in the order
\* validator, length cap, plural, obscurity, frequency, aggressive, and the
\* oracle is not consulted for an entry that fails a cheap check.
C10_StatedOrder ==
    SolveDone =>
        \A k \in 1..Len(log) :
            /\ log[k].exit = FirstFailing(StatedOrder, log[k].word, call.args)
            /\ log[k].lookup => \A c \in CheapChecks : ~Fails(c, log[k].word, call.args)

\* C10 amended: each entry leaves at the first failing check in the order
\* validator (length, center, letters), plural, obscurity, length cap,
\* frequency, aggressive, and the oracle is not consulted for an entry that
\* fails a check before the frequency threshold.
C10_CodeOrder ==
    SolveDone =>
        \A k \in 1..Len(log) :
            /\ log[k].exit = FirstFailing(CodeOrder, log[k].word, call.args)
            /\ log[k].lookup => \A c \in CheapChecks : ~Fails(c, log[k].word, call.args)

\* an entry over the length cap left at the plural check, another at the
\* length cap, and a third had its score looked up
C10_Witness ==
    /\ SolveDone
    /\ ~IsNone(call.args.max_len)
    /\ \E k \in 1..Len(log) :
          log[k].exit = 114 /\ Len(log[k].word) > Val(call.args.max_len)
    /\ \E k \in 1..Len(log) : log[k].exit = 159
    /\ \E k \in 1..Len(log) : log[k].lookup

=============================================================================
